---- MODULE Spec2Model ----
(***************************************************************************)
(* Model of scripts/release_manager.py: the publish / cleanup / normalize  *)
(* commands over the manifest file (apps.json), the local build files and  *)
(* the releases held by the remote gateway (the gh CLI).                   *)
(*                                                                         *)
(* Python strings are sequences of one-character strings, so that the      *)
(* regular expressions, strip(), lower() and the f-string formatting are   *)
(* computed character by character as the code computes them.              *)
(***************************************************************************)
EXTENDS Integers, Sequences, FiniteSets, TLC

VARIABLES manifest, files, remote, pc, runs, args, calls, reported, plan, out, exit, tagIn, tagOut

vars == <<manifest, files, remote, pc, runs, args, calls, reported, plan, out, exit, tagIn, tagOut>>

(***************************************************************************)
(* Bounds of the model.                                                    *)
(***************************************************************************)
\* longest stage list a publish may still grow
MaxEntries == 2
\* number of commands run one after the other
MaxRuns == 2

(***************************************************************************)
(* String helpers.                                                         *)
(***************************************************************************)
Digit == {"0", "1", "2", "3", "4", "5", "6", "7", "8", "9"}

Sep == {".", "-"}

ALPHA == <<"a", "l", "p", "h", "a">>
BETA == <<"b", "e", "t", "a">>
RC == <<"r", "c">>
PRE == <<"p", "r", "e">>
RELEASE == <<"r", "e", "l", "e", "a", "s", "e">>

\* Stage = Literal["alpha", "beta", "rc", "pre", "release"]
Stage == {ALPHA, BETA, RC, PRE, RELEASE}

APK == <<"a", "p", "k">>
IPA == <<"i", "p", "a">>

Sub(s, i, j) == SubSeq(s, i, j)

IsDigits(s) == Len(s) > 0 /\ \A i \in 1..Len(s) : s[i] \in Digit

\* \d+\.\d+\.\d+
IsSemver(s) ==
    \E i \in 1..Len(s) :
        /\ s[i] = "."
        /\ IsDigits(Sub(s, 1, i - 1))
        /\ \E j \in (i + 1)..Len(s) :
              /\ s[j] = "."
              /\ IsDigits(Sub(s, i + 1, j - 1))
              /\ IsDigits(Sub(s, j + 1, Len(s)))

RECURSIVE LStrip(_)
LStrip(s) == IF s # <<>> /\ Head(s) = " " THEN LStrip(Tail(s)) ELSE s

RECURSIVE RStrip(_)
RStrip(s) == IF s # <<>> /\ s[Len(s)] = " " THEN RStrip(Sub(s, 1, Len(s) - 1)) ELSE s

\* str.strip()
Strip(s) == RStrip(LStrip(s))

LowerChar(c) == IF c = "B" THEN "b" ELSE c

\* str.lower()
Lower(s) == [i \in 1..Len(s) |-> LowerChar(s[i])]

DigitVal(c) == CHOOSE n \in 0..9 : <<"0", "1", "2", "3", "4", "5", "6", "7", "8", "9">>[n + 1] = c

RECURSIVE StrToInt(_)
\* int(text) of a digit string
StrToInt(s) == IF s = <<>> THEN 0 ELSE 10 * StrToInt(Sub(s, 1, Len(s) - 1)) + DigitVal(s[Len(s)])

RECURSIVE IntToStr(_)
\* str(n) of a natural number, as the f-strings format an index
IntToStr(n) ==
    IF n < 10 THEN <<<<"0", "1", "2", "3", "4", "5", "6", "7", "8", "9">>[n + 1]>>
    ELSE IntToStr(n \div 10) \o IntToStr(n % 10)

(***************************************************************************)
(* The regular expressions.  Each returns the set of its matches (empty or *)
(* a single record of the named groups).                                   *)
(***************************************************************************)
\* (?P<semver>\d+\.\d+\.\d+)[.-](?P<stage>...)  anchored at both ends of s
MatchBase(s) ==
    { [semver |-> Sub(s, 1, k), stage |-> Sub(s, k + 2, Len(s)), sep |-> s[k + 1]] :
        k \in { k \in 1..(Len(s) - 1) :
                  /\ s[k + 1] \in Sep
                  /\ Sub(s, k + 2, Len(s)) \in Stage
                  /\ IsSemver(Sub(s, 1, k)) } }

\* (?P<semver>...)[.-](?P<stage>...)[.-](?P<idx>\d+)  anchored at both ends of s
MatchIndexed(s) ==
    UNION { { [semver |-> Sub(s, 1, k), stage |-> Sub(s, k + 2, m), idx |-> Sub(s, m + 2, Len(s))] :
                m \in { m \in (k + 2)..(Len(s) - 2) :
                          /\ s[m + 1] \in Sep
                          /\ Sub(s, k + 2, m) \in Stage
                          /\ IsDigits(Sub(s, m + 2, Len(s))) } } :
            k \in { k \in 1..(Len(s) - 1) : s[k + 1] \in Sep /\ IsSemver(Sub(s, 1, k)) } }

\* the text after an optional leading "v" (the v? of the version patterns)
DropV(s) == IF s # <<>> /\ Head(s) = "v" THEN Tail(s) ELSE s

\* VERSION_INPUT_RE: the matches, idx = <<>> when the optional index group is absent
VERSION_INPUT_RE(s) ==
    { [semver |-> m.semver, stage |-> m.stage, idx |-> <<>>] : m \in MatchBase(DropV(s)) }
    \cup MatchIndexed(DropV(s))

VERSION_FULL_RE(s) == MatchIndexed(DropV(s))

GH_RELEASE_TAG_RE(s) == s # <<>> /\ Head(s) = "v" /\ MatchBase(Tail(s)) # {}

\* the with-index pattern written with \. for [.-] between semver and stage
GH_RELEASE_TAG_WITH_INDEX_RE_dot_only(s) ==
    /\ s # <<>>
    /\ Head(s) = "v"
    /\ \E m \in MatchIndexed(Tail(s)) : s[Len(m.semver) + 2] = "."

GH_RELEASE_TAG_WITH_INDEX_RE(s) == s # <<>> /\ Head(s) = "v" /\ MatchIndexed(Tail(s)) # {}

\* the managed-asset test left out: every named asset counts as managed
MANAGED_ASSET_RE_any_name(s) == s # <<>>

\* ^(?P<app>.+)-(?P<stage>...)\.(?P<idx>\d+)\.(?P<ext>apk|ipa)$
MANAGED_ASSET_RE(s) ==
    \E c \in 1..Len(s) :
        /\ s[c] = "."
        /\ Sub(s, c + 1, Len(s)) \in {APK, IPA}
        /\ \E b \in 1..(c - 1) :
              /\ s[b] = "."
              /\ IsDigits(Sub(s, b + 1, c - 1))
              /\ \E a \in 2..(b - 1) :
                    /\ s[a] = "-"
                    /\ Sub(s, a + 1, b - 1) \in Stage

(***************************************************************************)
(* Tag / version functions.                                                *)
(***************************************************************************)
HasChar(s, c) == \E i \in 1..Len(s) : s[i] = c

normalize_base_tag(tag) ==
    LET t0 == Strip(tag)
        t == IF t0 # <<>> /\ Head(t0) = "v" THEN t0 ELSE <<"v">> \o t0
        m == MatchBase(Tail(t))
        m2 == MatchIndexed(Tail(t))
    IN  IF m # {}
        THEN LET g == CHOOSE x \in m : TRUE
                 sep == IF HasChar(t, ".") THEN "." ELSE "-"
             IN  <<"v">> \o g.semver \o <<sep>> \o g.stage
        ELSE IF m2 # {}
        THEN LET g == CHOOSE x \in m2 : TRUE
             IN  <<"v">> \o g.semver \o <<".">> \o g.stage
        ELSE t

\* Version.base_tag
base_tag(semver, stage, tag_style) ==
    IF tag_style = "dash" THEN <<"v">> \o semver \o <<"-">> \o stage
    ELSE <<"v">> \o semver \o <<".">> \o stage

\* Version.candidate_base_tags
candidate_base_tags(semver, stage, tag_style) ==
    LET dot == <<"v">> \o semver \o <<".">> \o stage
        dash == <<"v">> \o semver \o <<"-">> \o stage
    IN  IF tag_style = "dash" THEN <<dash, dot>> ELSE <<dot, dash>>

\* Version.version_str
version_str(semver, stage, index) == semver \o <<"-">> \o stage \o <<".">> \o IntToStr(index)

expected_asset(app_id, stage, idx, ext) ==
    app_id \o <<"-">> \o stage \o <<".">> \o IntToStr(idx) \o <<".">> \o ext

\* the index of a version given without one (Python's None)
NoIndex == -1

\* parse_version: ok = FALSE stands for the SystemExit of an illegal version
parse_version(raw) ==
    LET m == VERSION_INPUT_RE(Strip(raw))
    IN  IF m = {} THEN [ok |-> FALSE, semver |-> <<>>, stage |-> <<>>, idx |-> NoIndex]
        ELSE LET g == CHOOSE x \in m : TRUE
             IN  [ok |-> TRUE, semver |-> g.semver, stage |-> g.stage,
                  idx |-> IF g.idx = <<>> THEN NoIndex ELSE StrToInt(g.idx)]

(***************************************************************************)
(* The manifest (apps.json).                                               *)
(*   config  : sequence of apps                                            *)
(*   app     : [id, name, github, versions], github = TRUE when both       *)
(*             github.owner and github.repo are present                    *)
(*   versions: stage -> sequence of entries, most recent first             *)
(*   entry   : [version, date, changelog, android, ios]; a platform        *)
(*             sub-object is [has, tag, asset, testflight], has = FALSE    *)
(*             when the key is absent                                      *)
(***************************************************************************)
Range(s) == { s[i] : i \in 1..Len(s) }

NoPlat == [has |-> FALSE, tag |-> <<>>, asset |-> <<>>, testflight |-> FALSE]

Plat(tag, asset, testflight) == [has |-> TRUE, tag |-> tag, asset |-> asset, testflight |-> testflight]

\* the android and ios sub-objects of an entry, in the order the code reads them
Platforms(entry) == <<entry.android, entry.ios>>

\* for app in config["apps"]: first app whose id or name matches; 0 = SystemExit
find_app(config, app_key) ==
    LET key == Lower(Strip(app_key))
        hits == { i \in 1..Len(config) :
                    \/ Lower(Strip(config[i].id)) = key
                    \/ Lower(Strip(config[i].name)) = key }
    IN  IF hits = {} THEN 0 ELSE CHOOSE i \in hits : \A j \in hits : i <= j

collect_existing_indices(app, semver, stage) ==
    LET entries == app.versions[stage]
    IN  { StrToInt(m.idx) :
            m \in { m \in UNION { VERSION_FULL_RE(Strip(entries[i].version)) : i \in 1..Len(entries) } :
                      m.semver = semver /\ m.stage = stage } }

Max(S) == CHOOSE x \in S : \A y \in S : y <= x

collect_valid_tags_from_config(config) ==
    { normalize_base_tag(o.tag) :
        o \in { o \in UNION { Range(Platforms(e)) :
                      e \in UNION { Range(config[a].versions[st]) :
                                      a \in 1..Len(config), st \in Stage } } :
                  o.has /\ Strip(o.tag) # <<>> } }

\* the base tag under which allowed_assets_by_base_tag files an entry
entry_base(entry, m) ==
    LET withTag == { i \in 1..2 : Platforms(entry)[i].has /\ Strip(Platforms(entry)[i].tag) # <<>> }
        tag_from_cfg == IF withTag = {} THEN <<>>
                        ELSE Strip(Platforms(entry)[CHOOSE i \in withTag : \A j \in withTag : i <= j].tag)
    IN  normalize_base_tag(IF tag_from_cfg # <<>> THEN tag_from_cfg
                           ELSE <<"v">> \o m.semver \o <<".">> \o m.stage)

\* the dict base tag -> set of asset names, as the set of its (base, name) pairs
allowed_assets_by_base_tag(config) ==
    UNION { LET app_id == Strip(config[a].id)
                entries == config[a].versions[st]
            IN  IF app_id = <<>> THEN {}
                ELSE UNION { LET ms == VERSION_FULL_RE(Strip(entries[i].version))
                             IN  IF ms = {} THEN {}
                                 ELSE LET m == CHOOSE x \in ms : TRUE
                                          base == entry_base(entries[i], m)
                                      IN  { <<base, expected_asset(app_id, m.stage, StrToInt(m.idx), APK)>>,
                                            <<base, expected_asset(app_id, m.stage, StrToInt(m.idx), IPA)>> }
                             : i \in 1..Len(entries) }
            : a \in 1..Len(config), st \in Stage }

\* allowed.get(base, set())
allowed_get(allowed, base) == { p[2] : p \in { q \in allowed : q[1] = base } }

\* one platform sub-object as normalize_assets_in_app rewrites it
normalize_plat(obj, want) ==
    IF ~obj.has THEN obj
    ELSE LET a1 == IF Strip(obj.asset) # want THEN want ELSE obj.asset
             t1 == IF Strip(obj.tag) # <<>> /\ normalize_base_tag(obj.tag) # Strip(obj.tag)
                   THEN normalize_base_tag(obj.tag) ELSE obj.tag
         IN  [obj EXCEPT !.asset = a1, !.tag = t1]

normalize_entry(app_id, entry) ==
    LET ms == VERSION_FULL_RE(Strip(entry.version))
    IN  IF ms = {} THEN entry
        ELSE LET m == CHOOSE x \in ms : TRUE
                 idx == StrToInt(m.idx)
             IN  [entry EXCEPT
                    !.android = normalize_plat(entry.android, expected_asset(app_id, m.stage, idx, APK)),
                    !.ios = normalize_plat(entry.ios, expected_asset(app_id, m.stage, idx, IPA))]

\* the app as normalize_assets_in_app leaves it (changed = the result differs)
normalize_assets_in_app(app) ==
    LET app_id == Strip(app.id)
    IN  IF app_id = <<>> THEN app
        ELSE [app EXCEPT !.versions =
                [st \in Stage |-> [i \in 1..Len(app.versions[st]) |->
                                      normalize_entry(app_id, app.versions[st][i])]]]

normalize_config(config) == [a \in 1..Len(config) |-> normalize_assets_in_app(config[a])]

\* the search for an existing entry left out: every upsert inserts
found_idx_none(stage_list, vs) == 0

\* the position of the first entry whose stripped version equals vs; 0 = not found
found_idx(stage_list, vs) ==
    LET hits == { i \in 1..Len(stage_list) : Strip(stage_list[i].version) = vs }
    IN  IF hits = {} THEN 0 ELSE CHOOSE i \in hits : \A j \in hits : i <= j

\* stage_list.insert(0, stage_list.pop(i))
MoveToFront(l, i) == <<l[i]>> \o Sub(l, 1, i - 1) \o Sub(l, i + 1, Len(l))

\* android_asset_name / ios_asset_name = <<>> stands for None
upsert_version_entry(app, semver, stage, index, tag_style, date_str, changelog, android_asset_name, ios_asset_name, ios_testflight) ==
    LET stage_list == app.versions[stage]
        vs == version_str(semver, stage, index)
        tag == base_tag(semver, stage, tag_style)
        f == found_idx(stage_list, vs)
        e0 == IF f = 0
              THEN [version |-> vs, date |-> date_str, changelog |-> changelog,
                    android |-> NoPlat, ios |-> NoPlat]
              ELSE [stage_list[f] EXCEPT !.date = date_str, !.changelog = changelog]
        e1 == IF android_asset_name # <<>>
              THEN [e0 EXCEPT !.android = Plat(tag, android_asset_name, FALSE)] ELSE e0
        e2 == IF ios_asset_name # <<>>
              THEN [e1 EXCEPT !.ios = Plat(tag, ios_asset_name, ios_testflight)] ELSE e1
        l1 == IF f = 0 THEN <<e2>> \o stage_list
              ELSE MoveToFront([stage_list EXCEPT ![f] = e2], f)
    IN  [app EXCEPT !.versions[stage] = l1]

(***************************************************************************)
(* The remote gateway (gh).  remote is the sequence of releases, newest    *)
(* first, each [tagName, assets]; a gateway call is [op, tag, names].      *)
(* a.fail names the one call, [op, tag], that gh answers with a non-zero   *)
(* exit status in this run, NoFail when every call goes through.           *)
(***************************************************************************)
Call(op, tag, names) == [op |-> op, tag |-> tag, names |-> names]

NoFail == [op |-> "none", tag |-> <<>>]

Fails(a, op, tag) == a.fail = [op |-> op, tag |-> tag]

NoLog == [calls |-> <<>>, reported |-> <<>>]

Cat(l1, l2) == [calls |-> l1.calls \o l2.calls, reported |-> l1.reported \o l2.reported]

\* run_cmd: a dry run prints the command, a real run executes it
run_cmd(cmd, dry_run) ==
    IF dry_run THEN [calls |-> <<>>, reported |-> <<cmd>>]
    ELSE [calls |-> <<cmd>>, reported |-> <<>>]

Tags(rem) == [i \in 1..Len(rem) |-> rem[i].tagName]

Exists(rem, tag) == \E i \in 1..Len(rem) : rem[i].tagName = tag

AssetsOf(rem, tag) == rem[CHOOSE i \in 1..Len(rem) : rem[i].tagName = tag].assets

RECURSIVE Without(_, _)
\* the sequence s without the elements in S
Without(s, S) ==
    IF s = <<>> THEN <<>>
    ELSE IF Head(s) \in S THEN Without(Tail(s), S)
    ELSE <<Head(s)>> \o Without(Tail(s), S)

\* gh release view <tag>: exit status 0 only when the release is there and gh is
\* not failing; a dry run never asks and answers False
gh_release_exists(rem, tag, a) ==
    [log |-> run_cmd(Call("view", tag, <<>>), a.dry_run),
     value |-> IF a.dry_run THEN FALSE ELSE Exists(rem, tag) /\ ~Fails(a, "view", tag)]

gh_list_releases(rem, a) ==
    [log |-> run_cmd(Call("list", <<>>, <<>>), a.dry_run),
     exit |-> IF ~a.dry_run /\ Fails(a, "list", <<>>) THEN 1 ELSE 0,
     value |-> IF a.dry_run \/ Fails(a, "list", <<>>) THEN <<>> ELSE Tags(rem)]

\* gh_release_assets without its ensure_ok: a failed lookup reads as no assets
gh_release_assets_unchecked(rem, tag, a) ==
    LET bad == ~a.dry_run /\ (Fails(a, "assets", tag) \/ ~Exists(rem, tag))
    IN  [log |-> run_cmd(Call("assets", tag, <<>>), a.dry_run),
         exit |-> 0,
         value |-> IF a.dry_run \/ bad THEN <<>> ELSE AssetsOf(rem, tag)]

gh_release_assets(rem, tag, a) ==
    LET bad == ~a.dry_run /\ (Fails(a, "assets", tag) \/ ~Exists(rem, tag))
    IN  [log |-> run_cmd(Call("assets", tag, <<>>), a.dry_run),
         exit |-> IF bad THEN 1 ELSE 0,
         value |-> IF a.dry_run \/ bad THEN <<>> ELSE AssetsOf(rem, tag)]

\* st = [remote, log, exit]: the remote, the calls so far and the exit status
gh_create_release(st, tag, a) ==
    LET l == Cat(st.log, run_cmd(Call("create", tag, <<>>), a.dry_run))
    IN  IF a.dry_run THEN [st EXCEPT !.log = l]
        ELSE IF Fails(a, "create", tag) \/ Exists(st.remote, tag)
        THEN [st EXCEPT !.log = l, !.exit = 1]
        ELSE [st EXCEPT !.log = l, !.remote = <<[tagName |-> tag, assets |-> <<>>]>> \o @]

\* --clobber: a same-named asset is replaced, another name is added
gh_upload_assets(st, tag, names, a) ==
    IF names = <<>> THEN st
    ELSE LET l == Cat(st.log, run_cmd(Call("upload", tag, names), a.dry_run))
         IN  IF a.dry_run THEN [st EXCEPT !.log = l]
             ELSE IF Fails(a, "upload", tag) \/ ~Exists(st.remote, tag)
             THEN [st EXCEPT !.log = l, !.exit = 1]
             ELSE [st EXCEPT !.log = l,
                             !.remote = [i \in 1..Len(@) |->
                                 IF @[i].tagName = tag
                                 THEN [@[i] EXCEPT !.assets = @ \o Without(names, Range(@))]
                                 ELSE @[i]]]

gh_delete_asset(st, tag, asset_name, a) ==
    LET l == Cat(st.log, run_cmd(Call("deleteAsset", tag, <<asset_name>>), a.dry_run))
    IN  IF a.dry_run THEN [st EXCEPT !.log = l]
        ELSE IF \/ Fails(a, "deleteAsset", tag)
                \/ ~Exists(st.remote, tag)
                \/ asset_name \notin Range(AssetsOf(st.remote, tag))
        THEN [st EXCEPT !.log = l, !.exit = 1]
        ELSE [st EXCEPT !.log = l,
                        !.remote = [i \in 1..Len(@) |->
                            IF @[i].tagName = tag
                            THEN [@[i] EXCEPT !.assets = Without(@, {asset_name})]
                            ELSE @[i]]]

gh_delete_release(st, tag, a) ==
    LET l == Cat(st.log, run_cmd(Call("deleteRelease", tag, <<>>), a.dry_run))
    IN  IF a.dry_run THEN [st EXCEPT !.log = l]
        ELSE IF Fails(a, "deleteRelease", tag) \/ ~Exists(st.remote, tag)
        THEN [st EXCEPT !.log = l, !.exit = 1]
        ELSE [st EXCEPT !.log = l,
                        !.remote = SelectSeq(@, LAMBDA r : r.tagName # tag)]

\* prompt_bool with default=True: no answer counts as yes
prompt_bool_default_yes(answer) ==
    LET raw == Lower(Strip(IF Strip(answer) = <<>> THEN <<"y">> ELSE Strip(answer)))
    IN  raw \in {<<"y">>, <<"y", "e", "s">>, <<"t", "r", "u", "e">>, <<"1">>}

\* prompt_bool(msg, default=False) on the answer typed
prompt_bool(answer) ==
    LET raw == Lower(Strip(IF Strip(answer) = <<>> THEN <<"n">> ELSE Strip(answer)))
    IN  raw \in {<<"y">>, <<"y", "e", "s">>, <<"t", "r", "u", "e">>, <<"1">>}

(***************************************************************************)
(* cmd_cleanup.                                                            *)
(***************************************************************************)
EmptyPlan == [with_index |-> <<>>, not_in_config |-> <<>>, assets |-> <<>>]

\* the orphaned managed assets of one kept release, in the order gh lists them
plan_assets(tag, assets, allowed_names) ==
    LET names == [i \in 1..Len(assets) |-> Strip(assets[i])]
        orphan(name) == name # <<>> /\ MANAGED_ASSET_RE(name) /\ name \notin allowed_names
        picked == SelectSeq(names, orphan)
    IN  [i \in 1..Len(picked) |-> <<tag, picked[i]>>]

RECURSIVE plan_loop(_, _, _, _, _, _)
\* for r in releases: acc = [plan, log, exit] so far
plan_loop(releases, valid, allowed, rem, a, acc) ==
    IF releases = <<>> \/ acc.exit # 0 THEN acc
    ELSE LET tag == Strip(Head(releases))
             rest == Tail(releases)
             is_base_tag == GH_RELEASE_TAG_RE(tag)
             is_tag_with_index == GH_RELEASE_TAG_WITH_INDEX_RE(tag)
             base == normalize_base_tag(tag)
         IN  IF tag = <<>> THEN plan_loop(rest, valid, allowed, rem, a, acc)
             ELSE IF ~is_base_tag /\ ~is_tag_with_index
             THEN plan_loop(rest, valid, allowed, rem, a, acc)
             ELSE IF is_tag_with_index
             THEN plan_loop(rest, valid, allowed, rem, a,
                            [acc EXCEPT !.plan.with_index = Append(@, tag)])
             ELSE IF base \notin valid
             THEN plan_loop(rest, valid, allowed, rem, a,
                            [acc EXCEPT !.plan.not_in_config = Append(@, tag)])
             ELSE IF ~a.cleanup_assets
             THEN plan_loop(rest, valid, allowed, rem, a, acc)
             ELSE LET r == gh_release_assets(rem, tag, a)
                  IN  plan_loop(rest, valid, allowed, rem, a,
                                [acc EXCEPT
                                   !.log = Cat(@, r.log),
                                   !.exit = r.exit,
                                   !.plan.assets =
                                       @ \o plan_assets(tag, r.value, allowed_get(allowed, base))])

to_delete_release(p) == p.with_index \o p.not_in_config

RECURSIVE delete_releases(_, _, _)
\* for t in to_delete_release: gh_delete_release(...), stopping at the first failure
delete_releases(st, tags, a) ==
    IF tags = <<>> \/ st.exit # 0 THEN st
    ELSE delete_releases(gh_delete_release(st, Head(tags), a), Tail(tags), a)

RECURSIVE delete_assets(_, _, _)
\* for t, name in to_delete_assets: gh_delete_asset(...), stopping at the first failure
delete_assets(st, pairs, a) ==
    IF pairs = <<>> \/ st.exit # 0 THEN st
    ELSE delete_assets(gh_delete_asset(st, Head(pairs)[1], Head(pairs)[2], a), Tail(pairs), a)

\* cmd_cleanup from line 572 with its two delete loops in the other order
cleanup_execute_assets_first(rem, acc, a) ==
    LET st0 == [remote |-> rem, log |-> acc.log, exit |-> acc.exit, plan |-> acc.plan]
    IN  IF acc.exit # 0 THEN st0
        ELSE IF to_delete_release(acc.plan) = <<>> /\ acc.plan.assets = <<>> THEN st0
        ELSE IF ~a.yes /\ ~a.dry_run /\ ~prompt_bool(a.answer) THEN st0
        ELSE delete_releases(delete_assets(st0, acc.plan.assets, a), to_delete_release(acc.plan), a)

\* cmd_cleanup once the plan acc = [plan, log, exit] is worked out: the summary,
\* the confirmation and the deletes
cleanup_execute(rem, acc, a) ==
    LET st0 == [remote |-> rem, log |-> acc.log, exit |-> acc.exit, plan |-> acc.plan]
    IN  IF acc.exit # 0 THEN st0
        ELSE IF to_delete_release(acc.plan) = <<>> /\ acc.plan.assets = <<>> THEN st0
        ELSE IF ~a.yes /\ ~a.dry_run /\ ~prompt_bool(a.answer) THEN st0
        ELSE delete_assets(delete_releases(st0, to_delete_release(acc.plan), a),
                           acc.plan.assets, a)

\* the planning of cmd_cleanup on what gh release list returned
cleanup_plan(config, rem, listed, a) ==
    plan_loop(listed.value, collect_valid_tags_from_config(config),
              allowed_assets_by_base_tag(config), rem, a,
              [plan |-> EmptyPlan, log |-> listed.log, exit |-> listed.exit])

\* the run of cmd_cleanup on the manifest config and the remote rem:
\* [remote, log, exit, plan], plan as computed before the confirmation
cmd_cleanup(config, rem, a) ==
    IF find_app(config, a.app) = 0 \/ ~config[find_app(config, a.app)].github
    THEN [remote |-> rem, log |-> NoLog, exit |-> 1, plan |-> EmptyPlan]
    ELSE cleanup_execute(rem, cleanup_plan(config, rem, gh_list_releases(rem, a), a), a)

(***************************************************************************)
(* Local files: the names in the build directory.                          *)
(***************************************************************************)
\* the characters of the model in code-point order
CodeOrder ==
    <<" ", "-", ".", "0", "1", "2", "3", "4", "5", "6", "7", "8", "9", "B",
      "a", "b", "c", "d", "e", "h", "i", "k", "l", "n", "o", "p", "r", "s", "t", "v", "x">>

Ord(c) == CHOOSE i \in 1..Len(CodeOrder) : CodeOrder[i] = c

RECURSIVE LexLess(_, _)
LexLess(s, t) ==
    IF t = <<>> THEN FALSE
    ELSE IF s = <<>> THEN TRUE
    ELSE IF Head(s) # Head(t) THEN Ord(Head(s)) < Ord(Head(t))
    ELSE LexLess(Tail(s), Tail(t))

RECURSIVE Sorted(_)
\* sorted(set(...))
Sorted(S) ==
    IF S = {} THEN <<>>
    ELSE LET m == CHOOSE x \in S : \A y \in S \ {x} : LexLess(x, y)
         IN  <<m>> \o Sorted(S \ {m})

EndsWith(s, suf) == Len(suf) <= Len(s) /\ Sub(s, Len(s) - Len(suf) + 1, Len(s)) = suf

\* glob: a leading * matches any prefix, anything else is literal
GlobMatch(pattern, name) ==
    IF pattern # <<>> /\ Head(pattern) = "*" THEN EndsWith(name, Tail(pattern))
    ELSE pattern = name

resolve_files(pattern, fs) == Sorted({ n \in fs : GlobMatch(pattern, n) })

\* Path.suffix.lower(), without its dot
Suffix(name) ==
    LET dots == { i \in 2..Len(name) : name[i] = "." }
    IN  IF dots = {} THEN <<>> ELSE Lower(Sub(name, Max(dots) + 1, Len(name)))

classify_files(paths) ==
    [android |-> SelectSeq(paths, LAMBDA q : Suffix(q) = APK),
     ios |-> SelectSeq(paths, LAMBDA q : Suffix(q) = IPA)]

\* rename_to without its test of the destination: an existing file is overwritten
rename_to_overwrite(st, path, dest_name, dry_run) ==
    IF path = dest_name THEN [st EXCEPT !.renamed = Append(@, dest_name)]
    ELSE IF dry_run
    THEN [st EXCEPT !.log = Cat(@, [calls |-> <<>>,
                                    reported |-> <<Call("rename", path, <<dest_name>>)>>]),
                    !.renamed = Append(@, dest_name)]
    ELSE [st EXCEPT !.files = (@ \ {path}) \cup {dest_name},
                    !.renamed = Append(@, dest_name)]

\* st = [files, log, exit, renamed]
rename_to(st, path, dest_name, dry_run) ==
    IF path = dest_name THEN [st EXCEPT !.renamed = Append(@, dest_name)]
    ELSE IF dest_name \in st.files THEN [st EXCEPT !.exit = 1]
    ELSE IF dry_run
    THEN [st EXCEPT !.log = Cat(@, [calls |-> <<>>,
                                    reported |-> <<Call("rename", path, <<dest_name>>)>>]),
                    !.renamed = Append(@, dest_name)]
    ELSE [st EXCEPT !.files = (@ \ {path}) \cup {dest_name},
                    !.renamed = Append(@, dest_name)]

RECURSIVE rename_all(_, _, _, _)
\* for p in by_platform[...]: renamed.append(rename_to(p, name)), stopping at a SystemExit
rename_all(st, paths, dest_name, dry_run) ==
    IF paths = <<>> \/ st.exit # 0 THEN st
    ELSE rename_all(rename_to(st, Head(paths), dest_name, dry_run), Tail(paths), dest_name, dry_run)

\* dump_json without its dry_run test: the file is written in every run
dump_json_always_writes(old, data, dry_run) == data

\* the manifest file after dump_json(path, data)
dump_json(old, data, dry_run) == IF dry_run THEN old ELSE data

dump_json_log(dry_run) ==
    IF dry_run THEN [calls |-> <<>>, reported |-> <<Call("write", <<>>, <<>>)>>] ELSE NoLog

(***************************************************************************)
(* cmd_publish and cmd_normalize.                                          *)
(***************************************************************************)
\* what a publish run worked out: the release it uploaded to, the version string it
\* wrote, the asset names it uploaded and the stage list it upserted into
NoOut == [base_tag |-> <<>>, version |-> <<>>, assets |-> <<>>, app |-> 0, stage |-> <<>>]

\* the local variables of cmd_publish before anything is worked out
NoLocals ==
    [ai |-> 0, app_id |-> <<>>, semver |-> <<>>, stage |-> <<>>, idx |-> 0,
     android_asset_name |-> <<>>, ios_asset_name |-> <<>>, renamed |-> <<>>, base_tag |-> <<>>]

\* a run of cmd_publish so far: the manifest file, the local files, the remote, what
\* was called and printed, the exit status (non-zero once a SystemExit is raised),
\* the cleanup plan and the local variables
PublishStart(config, fs, rem) ==
    [manifest |-> config, files |-> fs, remote |-> rem, log |-> NoLog, exit |-> 0,
     plan |-> EmptyPlan, v |-> NoLocals]

\* cmd_publish up to the renames: app, version, files, canonical names
publish_files(st, a) ==
    LET config == st.manifest
        ai == find_app(config, a.app)
        pv == parse_version(a.version)
        quit == [st EXCEPT !.exit = 1]
    IN  IF ai = 0 THEN quit
        ELSE IF ~config[ai].github THEN quit
        ELSE IF ~pv.ok THEN quit
        ELSE
        LET app == config[ai]
            app_id == IF Strip(app.id) # <<>> THEN Strip(app.id) ELSE a.app
            existing == collect_existing_indices(app, pv.semver, pv.stage)
            idx == IF pv.idx # NoIndex THEN pv.idx
                   ELSE IF existing # {} THEN Max(existing) + 1 ELSE 1
            paths == resolve_files(a.files, st.files)
            by_platform == classify_files(paths)
        IN  IF paths = <<>> THEN quit
            ELSE IF by_platform.android = <<>> /\ by_platform.ios = <<>> THEN quit
            ELSE
            LET android_asset_name == IF by_platform.android # <<>>
                                      THEN expected_asset(app_id, pv.stage, idx, APK) ELSE <<>>
                ios_asset_name == IF by_platform.ios # <<>>
                                  THEN expected_asset(app_id, pv.stage, idx, IPA) ELSE <<>>
                r1 == rename_all([files |-> st.files, log |-> NoLog, exit |-> 0, renamed |-> <<>>],
                                 by_platform.android, android_asset_name, a.dry_run)
                r2 == rename_all(r1, by_platform.ios, ios_asset_name, a.dry_run)
            IN  [st EXCEPT !.files = r2.files, !.log = r2.log, !.exit = r2.exit,
                           !.v = [ai |-> ai, app_id |-> app_id, semver |-> pv.semver,
                                  stage |-> pv.stage, idx |-> idx,
                                  android_asset_name |-> android_asset_name,
                                  ios_asset_name |-> ios_asset_name,
                                  renamed |-> r2.renamed, base_tag |-> <<>>]]

\* cmd_publish from the probe of the candidate base tags to the upload
publish_release(st, a) ==
    IF st.exit # 0 THEN st
    ELSE LET cands == candidate_base_tags(st.v.semver, st.v.stage, a.tag_style)
             p1 == gh_release_exists(st.remote, cands[1], a)
             p2 == gh_release_exists(st.remote, cands[2], a)
             found == IF p1.value THEN cands[1] ELSE IF p2.value THEN cands[2] ELSE <<>>
             base == IF found = <<>> THEN cands[1] ELSE found
             g0 == [remote |-> st.remote, exit |-> 0,
                    log |-> Cat(st.log, IF p1.value THEN p1.log ELSE Cat(p1.log, p2.log))]
             g1 == IF found = <<>> THEN gh_create_release(g0, base, a) ELSE g0
             g2 == IF g1.exit # 0 THEN g1 ELSE gh_upload_assets(g1, base, st.v.renamed, a)
         IN  [st EXCEPT !.remote = g2.remote, !.log = g2.log, !.exit = g2.exit,
                        !.v.base_tag = base]

\* cmd_publish from the upsert to the write of the manifest file
publish_manifest(st, a) ==
    IF st.exit # 0 THEN st
    ELSE LET config == st.manifest
             style == IF HasChar(st.v.base_tag, ".") THEN "dot" ELSE "dash"
             app1 == upsert_version_entry(config[st.v.ai], st.v.semver, st.v.stage, st.v.idx, style,
                                          a.date, a.notes, st.v.android_asset_name,
                                          st.v.ios_asset_name, a.ios_testflight)
             config1 == [config EXCEPT ![st.v.ai] = app1]
             config2 == IF a.normalize_assets THEN normalize_config(config1) ELSE config1
         IN  [st EXCEPT !.manifest = dump_json(config, config2, a.dry_run),
                        !.log = Cat(@, dump_json_log(a.dry_run))]

\* a run of cmd_publish with the outcome c of its cleanup pass
after_cleanup(st, c) ==
    [st EXCEPT !.remote = c.remote, !.log = Cat(@, c.log), !.exit = c.exit, !.plan = c.plan]

\* the cleanup pass at the end of cmd_publish, on the manifest file as written
publish_cleanup(st, a) ==
    IF st.exit # 0 \/ ~a.cleanup THEN st
    ELSE after_cleanup(st, cmd_cleanup(st.manifest, st.remote,
                                       [a EXCEPT !.app = st.v.app_id, !.cleanup_assets = TRUE]))

\* what a run that got through the upload worked out
publish_out(st) ==
    IF st.exit # 0 THEN NoOut
    ELSE [base_tag |-> st.v.base_tag, version |-> version_str(st.v.semver, st.v.stage, st.v.idx),
          assets |-> st.v.renamed, app |-> st.v.ai, stage |-> st.v.stage]

\* the run of cmd_normalize: the manifest file afterwards and what was printed
cmd_normalize(config, a) ==
    LET config1 == normalize_config(config)
        changed == config1 # config
    IN  IF ~changed THEN [manifest |-> config, log |-> NoLog]
        ELSE [manifest |-> dump_json(config, config1, a.dry_run), log |-> dump_json_log(a.dry_run)]

(***************************************************************************)
(* The strings of the model.                                               *)
(***************************************************************************)
BOOCHAT == <<"b", "o", "o", "c", "h", "a", "t">>
BOOCHAT_CAP == <<"B", "o", "o", "c", "h", "a", "t">>
SEMVER1 == <<"1", ".", "0", ".", "0">>
SEMVER2 == <<"2", ".", "0", ".", "0">>

\* v{semver}{sep}{stage}
BaseTag(semver, sep, stage) == <<"v">> \o semver \o <<sep>> \o stage

\* {semver}{sep1}{stage}{sep2}{idx}
VersionText(semver, sep1, stage, sep2, idx) == semver \o <<sep1>> \o stage \o <<sep2>> \o idx

TAG_DOT == BaseTag(SEMVER1, ".", ALPHA)
TAG_DASH == BaseTag(SEMVER1, "-", ALPHA)
TAG_DASH_IDX == TAG_DASH \o <<".", "2">>
TAG_DOT_IDX == TAG_DOT \o <<".", "2">>
TAG_RC == BaseTag(SEMVER2, ".", RC)
TAG_OTHER == <<"s", "o", "n", "e">>

APP_APK == <<"a", "p", "p", ".", "a", "p", "k">>
APP_IPA == <<"a", "p", "p", ".", "i", "p", "a">>
README == <<"r", "e", "a", "d", ".", "t", "x", "t">>
STAR == <<"*">>

Asset(idx, ext) == expected_asset(BOOCHAT, ALPHA, idx, ext)

(***************************************************************************)
(* The runs.  A command is one step: it reads the manifest file, the local *)
(* files and the remote, and leaves what the run left behind.  args holds  *)
(* the command line and the answers of the user and of gh in that run.     *)
(***************************************************************************)
NoArgs ==
    [cmd |-> "none", dry_run |-> FALSE, app |-> <<>>, version |-> <<>>, files |-> <<>>,
     notes |-> "", date |-> "", ios_testflight |-> FALSE, cleanup |-> FALSE, yes |-> FALSE,
     normalize_assets |-> FALSE, tag_style |-> "dot", cleanup_assets |-> FALSE,
     answer |-> <<>>, fail |-> NoFail]

Entry(version, date, android, ios) ==
    [version |-> version, date |-> date, changelog |-> "n0", android |-> android, ios |-> ios]

NoVersions == [st \in Stage |-> <<>>]

App(id, name, alpha) ==
    [id |-> id, name |-> name, github |-> TRUE, versions |-> [NoVersions EXCEPT ![ALPHA] = alpha]]

\* the manifests a run may start from
InitConfigs ==
    { <<App(BOOCHAT, BOOCHAT_CAP, <<>>)>>,
      <<App(BOOCHAT, BOOCHAT_CAP,
            <<Entry(VersionText(SEMVER1, "-", ALPHA, ".", <<"1">>), "d1",
                    Plat(TAG_DOT, Asset(1, APK), FALSE), NoPlat)>>)>>,
      <<App(BOOCHAT, BOOCHAT_CAP,
            <<Entry(VersionText(SEMVER1, ".", ALPHA, ".", <<"1">>), "d1",
                    Plat(TAG_DASH, Asset(1, APK), FALSE), NoPlat)>>)>> }

Release(tag, assets) == [tagName |-> tag, assets |-> assets]

\* the remotes a run may start from
InitRemotes ==
    { <<>>,
      <<Release(TAG_DOT, <<Asset(1, APK), Asset(2, APK), README>>), Release(TAG_DASH_IDX, <<>>),
        Release(TAG_RC, <<>>), Release(TAG_OTHER, <<>>)>>,
      <<Release(TAG_DASH, <<Asset(1, APK)>>)>> }

InitFiles == { {APP_APK, APP_IPA, README} }

\* --yes, or the answer typed at the confirmation prompt
Confirmations == { [yes |-> TRUE, answer |-> <<>>], [yes |-> FALSE, answer |-> <<"y">>],
                   [yes |-> FALSE, answer |-> <<"n">>], [yes |-> FALSE, answer |-> <<>>] }

\* the calls gh may answer with a failure during a publish
PublishFailures ==
    { NoFail, [op |-> "view", tag |-> TAG_DOT], [op |-> "view", tag |-> TAG_DASH] }

\* --no-cleanup, or the cleanup pass with --yes or with the default answer
CleanupModes ==
    { [cleanup |-> FALSE, yes |-> FALSE, answer |-> <<>>],
      [cleanup |-> TRUE, yes |-> TRUE, answer |-> <<>>],
      [cleanup |-> TRUE, yes |-> FALSE, answer |-> <<>>] }

PublishArgs ==
    { [NoArgs EXCEPT !.cmd = "publish", !.dry_run = d, !.app = BOOCHAT_CAP, !.version = v,
                     !.files = STAR, !.notes = "n1", !.date = "d2", !.cleanup = c.cleanup,
                     !.yes = c.yes, !.answer = c.answer, !.normalize_assets = n,
                     !.tag_style = ts, !.cleanup_assets = TRUE, !.fail = f] :
        d \in BOOLEAN,
        v \in { VersionText(SEMVER1, ".", ALPHA, ".", <<"1">>), SEMVER1 \o <<"-">> \o ALPHA },
        c \in CleanupModes, n \in BOOLEAN, ts \in {"dot", "dash"}, f \in PublishFailures }

CleanupFailures ==
    { NoFail, [op |-> "list", tag |-> <<>>], [op |-> "assets", tag |-> TAG_DOT] }

CleanupArgs ==
    { [NoArgs EXCEPT !.cmd = "cleanup", !.dry_run = d, !.app = BOOCHAT, !.yes = c.yes,
                     !.answer = c.answer, !.cleanup_assets = ca, !.fail = f] :
        d \in BOOLEAN, c \in Confirmations, ca \in BOOLEAN, f \in CleanupFailures }

NormalizeArgs == { [NoArgs EXCEPT !.cmd = "normalize", !.dry_run = d] : d \in BOOLEAN }

\* no stage list grows beyond the bound
Bounded(config) ==
    \A a \in 1..Len(config), st \in Stage : Len(config[a].versions[st]) <= MaxEntries

\* the process state of a shell with no command running
Idle ==
    /\ pc = "idle"
    /\ args = NoArgs
    /\ calls = <<>>
    /\ reported = <<>>
    /\ plan = EmptyPlan
    /\ out = NoOut
    /\ exit = 0

Init ==
    /\ manifest \in InitConfigs
    /\ files \in InitFiles
    /\ remote \in InitRemotes
    /\ Idle
    /\ runs = 0
    /\ tagIn = <<>>
    /\ tagOut = <<>>

\* the state a publish run with command line a leaves
PublishRun(a) ==
    /\ runs < MaxRuns
    /\ \E s1 \in {publish_files(PublishStart(manifest, files, remote), a)} :
       \E s2 \in {publish_release(s1, a)} :
       \E s3 \in {publish_manifest(s2, a)} :
       \E r \in {publish_cleanup(s3, a)} :
           /\ Bounded(r.manifest)
           /\ runs' = runs + 1
           /\ manifest' = r.manifest
           /\ files' = r.files
           /\ remote' = r.remote
           /\ pc' = "done"
           /\ args' = a
           /\ calls' = r.log.calls
           /\ reported' = r.log.reported
           /\ plan' = r.plan
           /\ out' = publish_out(s2)
           /\ exit' = r.exit
           /\ UNCHANGED <<tagIn, tagOut>>

Publish == pc = "idle" /\ \E a \in PublishArgs : PublishRun(a)

\* the caller runs the same publish command line again; gh answers afresh
Rerun ==
    /\ pc = "done"
    /\ args.cmd = "publish"
    /\ \E f \in PublishFailures : PublishRun([args EXCEPT !.fail = f])

Cleanup ==
    /\ pc = "idle"
    /\ runs < MaxRuns
    /\ \E a \in CleanupArgs :
        \E r \in {cmd_cleanup(manifest, remote, a)} :
            /\ remote' = r.remote
            /\ runs' = runs + 1
            /\ pc' = "done"
            /\ args' = a
            /\ calls' = r.log.calls
            /\ reported' = r.log.reported
            /\ plan' = r.plan
            /\ out' = NoOut
            /\ exit' = r.exit
            /\ UNCHANGED <<manifest, files, tagIn, tagOut>>

Normalize ==
    /\ pc = "idle"
    /\ runs < MaxRuns
    /\ \E a \in NormalizeArgs :
        \E r \in {cmd_normalize(manifest, a)} :
            /\ manifest' = r.manifest
            /\ runs' = runs + 1
            /\ pc' = "done"
            /\ args' = a
            /\ calls' = r.log.calls
            /\ reported' = r.log.reported
            /\ plan' = EmptyPlan
            /\ out' = NoOut
            /\ exit' = 0
            /\ UNCHANGED <<files, remote, tagIn, tagOut>>

\* the process ends: its arguments and output are gone, the manifest file, the
\* local files and the remote stay
Exit ==
    /\ pc = "done"
    /\ pc' = "idle"
    /\ args' = NoArgs
    /\ calls' = <<>>
    /\ reported' = <<>>
    /\ plan' = EmptyPlan
    /\ out' = NoOut
    /\ exit' = 0
    /\ UNCHANGED <<manifest, files, remote, runs, tagIn, tagOut>>

Next == Publish \/ Rerun \/ Cleanup \/ Normalize \/ Exit

Spec == Init /\ [][Next]_vars

(***************************************************************************)
(* normalize_base_tag on its own: the tag is drawn from TagInputs.         *)
(***************************************************************************)
TagInputs ==
    { pre \o sv \o <<s1>> \o st \o suf :
        pre \in {<<>>, <<"v">>}, sv \in {SEMVER1, SEMVER2}, s1 \in Sep, st \in Stage,
        suf \in {<<>>} \cup { <<s2>> \o n : s2 \in Sep, n \in {<<"1">>, <<"0", "2">>} } }
    \cup { TAG_OTHER, <<" ">> \o TAG_DASH \o <<" ">>, <<"v">> }

InitTag ==
    /\ manifest = <<>>
    /\ files = {}
    /\ remote = <<>>
    /\ Idle
    /\ runs = 0
    /\ tagIn \in TagInputs
    /\ tagOut = <<>>

NormalizeTag ==
    /\ tagOut = <<>>
    /\ tagOut' = normalize_base_tag(tagIn)
    /\ UNCHANGED <<manifest, files, remote, pc, runs, args, calls, reported, plan, out, exit, tagIn>>

SpecTag == InitTag /\ [][NormalizeTag]_vars

(***************************************************************************)
(* cmd_cleanup on its own: any manifest of CleanupConfigs against any      *)
(* remote of at most MaxReleases releases.                                 *)
(***************************************************************************)
\* longest remote release list a cleanup starts from
MaxReleases == 2

CleanupConfigs ==
    InitConfigs
    \cup { <<App(BOOCHAT, BOOCHAT_CAP,
                 <<Entry(VersionText(SEMVER1, "-", ALPHA, ".", <<"1">>), "d1",
                         Plat(TAG_DOT_IDX, Asset(1, APK), FALSE), NoPlat)>>),
             [App(<<>>, BOOCHAT_CAP, <<>>) EXCEPT !.versions[RC] =
                 <<Entry(VersionText(SEMVER2, "-", RC, ".", <<"1">>), "d1",
                         NoPlat, Plat(TAG_RC, <<>>, TRUE))>>]>> }

ReleasePool ==
    { Release(TAG_DOT, <<Asset(1, APK), Asset(2, APK), README>>),
      Release(TAG_DASH, <<Asset(2, IPA), Asset(1, APK)>>),
      Release(TAG_DASH_IDX, <<Asset(2, APK)>>),
      Release(TAG_RC, <<expected_asset(BOOCHAT, RC, 1, APK)>>),
      Release(TAG_OTHER, <<Asset(2, APK)>>) }

\* the release lists without a repeated tag, of at most n releases
RECURSIVE Remotes(_)
Remotes(n) ==
    IF n = 0 THEN {<<>>}
    ELSE Remotes(n - 1)
         \cup { Append(r, x) : r \in { q \in Remotes(n - 1) : Len(q) = n - 1 },
                               x \in ReleasePool }

NoRepeat(r) == \A i, j \in 1..Len(r) : i # j => r[i].tagName # r[j].tagName

InitCleanup ==
    /\ manifest \in CleanupConfigs
    /\ files = {}
    /\ remote \in { r \in Remotes(MaxReleases) : NoRepeat(r) }
    /\ Idle
    /\ runs = 0
    /\ tagIn = <<>>
    /\ tagOut = <<>>

NextCleanup == Cleanup \/ Exit

SpecCleanup == InitCleanup /\ [][NextCleanup]_vars

(***************************************************************************)
(* upsert_version_entry on its own: any alpha list of UpsertLists, any     *)
(* version 1.0.0-alpha.N with N up to MaxIndex.                            *)
(***************************************************************************)
\* largest index upserted
MaxIndex == 2

UpsertVersions ==
    { VersionText(SEMVER1, "-", ALPHA, ".", <<"1">>),
      VersionText(SEMVER1, "-", ALPHA, ".", <<"2">>),
      <<" ">> \o VersionText(SEMVER1, "-", ALPHA, ".", <<"1">>),
      VersionText(SEMVER1, ".", ALPHA, ".", <<"1">>) }

\* the stage lists in which no version string occurs twice
UpsertLists ==
    { l \in UNION { [1..n -> { Entry(v, "d1", Plat(TAG_DOT, Asset(1, APK), FALSE), NoPlat) :
                                 v \in UpsertVersions }] : n \in 0..MaxEntries } :
        \A i, j \in 1..Len(l) : i # j => l[i].version # l[j].version }

InitUpsert ==
    /\ manifest \in { <<App(BOOCHAT, BOOCHAT_CAP, l)>> : l \in UpsertLists }
    /\ files = {}
    /\ remote = <<>>
    /\ Idle
    /\ runs = 0
    /\ tagIn = <<>>
    /\ tagOut = <<>>

\* one call of upsert_version_entry; args and out keep what it was called with
Upsert ==
    /\ pc = "idle"
    /\ runs < MaxRuns
    /\ \E index \in 1..MaxIndex, tag_style \in {"dot", "dash"},
          android \in BOOLEAN, ios \in BOOLEAN :
        \E app \in {upsert_version_entry(manifest[1], SEMVER1, ALPHA, index, tag_style, "d2", "n1",
                                         IF android THEN Asset(index, APK) ELSE <<>>,
                                         IF ios THEN Asset(index, IPA) ELSE <<>>, FALSE)} :
            /\ Bounded(<<app>>)
            /\ manifest' = <<app>>
            /\ runs' = runs + 1
            /\ pc' = "done"
            /\ args' = [NoArgs EXCEPT !.cmd = "upsert", !.version = version_str(SEMVER1, ALPHA, index),
                                      !.notes = "n1", !.date = "d2", !.tag_style = tag_style]
            /\ out' = [NoOut EXCEPT !.base_tag = base_tag(SEMVER1, ALPHA, tag_style),
                                    !.assets = (IF android THEN <<Asset(index, APK)>> ELSE <<>>)
                                               \o (IF ios THEN <<Asset(index, IPA)>> ELSE <<>>)]
            /\ UNCHANGED <<files, remote, calls, reported, plan, exit, tagIn, tagOut>>

NextUpsert == Upsert \/ Exit

SpecUpsert == InitUpsert /\ [][NextUpsert]_vars

(***************************************************************************)
(* cmd_publish on its own: manifests whose app has no id or no github      *)
(* object, local files with nothing to upload or with the canonical name   *)
(* already taken, and command lines naming an unknown app, an illegal      *)
(* version or a pattern that matches nothing.                              *)
(***************************************************************************)
OLD_APK == <<"o", "l", "d", ".", "a", "p", "k">>
STAR_IPA == <<"*", ".", "i", "p", "a">>
BAD_VERSION == <<"1", ".", "0", "-">> \o ALPHA

\* the manifests a publish may start from
PublishConfigs ==
    { <<App(BOOCHAT, BOOCHAT_CAP, <<>>)>>,
      <<App(<<>>, BOOCHAT_CAP, <<>>)>>,
      <<[App(BOOCHAT, BOOCHAT_CAP, <<>>) EXCEPT !.github = FALSE]>>,
      <<App(BOOCHAT, BOOCHAT_CAP,
            <<Entry(VersionText(SEMVER1, "-", ALPHA, ".", <<"1">>), "d1",
                    Plat(TAG_DASH, Asset(1, APK), FALSE), NoPlat)>>)>> }

\* the local directories a publish may start from
PublishFileSets ==
    { {APP_APK, APP_IPA, README}, {README}, {APP_APK, Asset(1, APK)}, {APP_APK, OLD_APK} }

\* the remotes a publish may start from
PublishRemotes == { <<>>, <<Release(TAG_DASH, <<Asset(1, APK)>>)>> }

\* a complete command line, and the ones with one argument gone wrong
PublishInputs ==
    { [NoArgs EXCEPT !.cmd = "publish", !.dry_run = d, !.app = k, !.version = v,
                     !.files = STAR, !.notes = "n1", !.date = "d2", !.cleanup = c,
                     !.yes = TRUE, !.tag_style = ts, !.cleanup_assets = TRUE] :
        d \in BOOLEAN, k \in {BOOCHAT, BOOCHAT_CAP}, c \in BOOLEAN, ts \in {"dot", "dash"},
        v \in { VersionText(SEMVER1, ".", ALPHA, ".", <<"1">>) } }
    \cup
    { [NoArgs EXCEPT !.cmd = "publish", !.dry_run = d, !.app = w.app, !.version = w.version,
                     !.files = w.files, !.notes = "n1", !.date = "d2", !.cleanup = TRUE,
                     !.yes = TRUE, !.cleanup_assets = TRUE] :
        d \in BOOLEAN,
        w \in { [app |-> TAG_OTHER, version |-> SEMVER1 \o <<"-">> \o ALPHA, files |-> STAR],
                [app |-> BOOCHAT, version |-> BAD_VERSION, files |-> STAR],
                [app |-> BOOCHAT, version |-> SEMVER1 \o <<"-">> \o ALPHA, files |-> STAR_IPA] } }

InitPublish ==
    /\ manifest \in PublishConfigs
    /\ files \in PublishFileSets
    /\ remote \in PublishRemotes
    /\ Idle
    /\ runs = 0
    /\ tagIn = <<>>
    /\ tagOut = <<>>

PublishAny == pc = "idle" /\ \E a \in PublishInputs : PublishRun(a)

NextPublish == PublishAny \/ Exit

SpecPublish == InitPublish /\ [][NextPublish]_vars

(***************************************************************************)
(* The properties.                                                         *)
(***************************************************************************)
Semvers == {SEMVER1, SEMVER2}

IndexTexts == {<<"1">>, <<"2">>, <<"0", "2">>}

\* the tags of the release-tag grammar, written out rather than parsed
IndexFreeTags == { BaseTag(sv, s, st) : sv \in Semvers, s \in Sep, st \in Stage }

IndexedTags == { b \o <<s>> \o n : b \in IndexFreeTags, s \in Sep, n \in IndexTexts }

\* the asset names of the managed-asset grammar, written out rather than parsed
ManagedNames ==
    { app \o <<"-">> \o st \o <<".">> \o n \o <<".">> \o ext :
        app \in {BOOCHAT, BOOCHAT_CAP}, st \in Stage, n \in IndexTexts, ext \in {APK, IPA} }

HasOp(log, op) == \E i \in 1..Len(log) : log[i].op = op

\* the positions of the delete calls in a log
Deletes(log) == { i \in 1..Len(log) : log[i].op \in {"deleteRelease", "deleteAsset"} }

\* a step that is one whole run of the cleanup command
CleanupPass == pc = "idle" /\ pc' = "done" /\ args'.cmd = "cleanup"

RECURSIVE OrphanPairs(_, _)
\* the (tag, name) pairs of the managed names outside the allowed set, release by
\* release and, within a release, in the order of its assets
OrphanPairs(releases, allowed) ==
    IF releases = <<>> THEN <<>>
    ELSE LET r == Head(releases)
             ok == allowed_get(allowed, normalize_base_tag(r.tagName))
             names == SelectSeq(r.assets, LAMBDA n : n \in ManagedNames /\ n \notin ok)
         IN  [i \in 1..Len(names) |-> <<r.tagName, names[i]>>] \o OrphanPairs(Tail(releases), allowed)

\* C1: in a cleanup run that lists the remote, the delete-release plan is the
\* listed tags that carry an index suffix, in list order, followed by the listed
\* index-free tags whose normalized form is not a valid base tag of the manifest,
\* in list order; and no deleteRelease, listAssets or deleteAsset call is issued
\* for a tag outside the index-free and with-index grammars.
C1_DeleteReleasePlan ==
    [][CleanupPass /\ ~args'.dry_run =>
        LET tags == Tags(remote)
            valid == collect_valid_tags_from_config(manifest)
            indexed == SelectSeq(tags, LAMBDA t : t \in IndexedTags)
            orphans == SelectSeq(tags, LAMBDA t : t \in IndexFreeTags
                                                  /\ normalize_base_tag(t) \notin valid)
        IN  /\ exit' = 0 => plan'.with_index \o plan'.not_in_config = indexed \o orphans
            /\ \A i \in 1..Len(calls') :
                  calls'[i].op \in {"deleteRelease", "assets", "deleteAsset"}
                      => calls'[i].tag \in IndexedTags \cup IndexFreeTags]_vars

\* a cleanup planned both kinds of release and left an unrelated tag alone
C1_Witness ==
    /\ pc = "done" /\ args.cmd = "cleanup" /\ ~args.dry_run /\ exit = 0
    /\ plan.with_index # <<>>
    /\ HasOp(calls, "deleteRelease")
    /\ Exists(remote, TAG_OTHER)

\* C2: in a cleanup run with asset cleanup on that lists the remote, the
\* delete-asset plan is, for each kept release (index-free tag whose normalized
\* form is valid) in list order, the assets whose name is of the managed grammar
\* and outside the allowed set of the release's base tag; a name outside the
\* managed grammar is never planned.  With asset cleanup off the plan is empty.
C2_DeleteAssetPlan ==
    [][CleanupPass /\ ~args'.dry_run /\ exit' = 0 =>
        LET valid == collect_valid_tags_from_config(manifest)
            kept == SelectSeq(remote, LAMBDA r : r.tagName \in IndexFreeTags
                                                 /\ normalize_base_tag(r.tagName) \in valid)
        IN  /\ args'.cleanup_assets
                  => plan'.assets = OrphanPairs(kept, allowed_assets_by_base_tag(manifest))
            /\ ~args'.cleanup_assets => plan'.assets = <<>>
            /\ \A i \in 1..Len(plan'.assets) : plan'.assets[i][2] \in ManagedNames]_vars

\* a cleanup planned an asset of a kept release that also holds an unmanaged file
C2_Witness ==
    /\ pc = "done" /\ args.cmd = "cleanup" /\ ~args.dry_run /\ exit = 0
    /\ plan.assets # <<>>
    /\ \E i \in 1..Len(remote) :
          remote[i].tagName = plan.assets[1][1] /\ README \in Range(remote[i].assets)

\* C3: normalize_base_tag returns an index-free release tag as it is, dash style
\* staying dash style and dot style staying dot style.
C3_PunctuationPreserved == (tagOut # <<>> /\ tagIn \in IndexFreeTags) => tagOut = tagIn

\* the files a publish renames: the matched .apk / .ipa paths not yet named as asked
NeedsRename(fs, a, o) ==
    { n \in fs : GlobMatch(a.files, n) /\ Suffix(n) \in {APK, IPA} /\ n \notin Range(o.assets) }

\* C4: a dry run of publish, cleanup or normalize executes no gateway call and
\* leaves the manifest file, the local files and the remote as they were; each
\* mutating operation it reaches (rename, createRelease, uploadAssets, manifest
\* write) is reported instead.
C4_DryRunChangesNothing ==
    [][pc' = "done" /\ runs' # runs /\ args'.dry_run =>
        /\ manifest' = manifest
        /\ files' = files
        /\ remote' = remote
        /\ calls' = <<>>
        /\ (args'.cmd = "publish" /\ exit' = 0) =>
              /\ \A n \in NeedsRename(files, args', out') :
                    \E i \in 1..Len(reported') :
                        reported'[i].op = "rename" /\ reported'[i].tag = n
              /\ Call("create", out'.base_tag, <<>>) \in Range(reported')
              /\ Call("upload", out'.base_tag, out'.assets) \in Range(reported')
              /\ HasOp(reported', "write")
        /\ (args'.cmd = "normalize" /\ normalize_config(manifest) # manifest) =>
              HasOp(reported', "write")]_vars

\* a dry publish went through to the end and reported its renames and its upload
C4_Witness ==
    /\ pc = "done" /\ args.cmd = "publish" /\ args.dry_run /\ exit = 0
    /\ HasOp(reported, "rename")
    /\ HasOp(reported, "upload")
    /\ APP_APK \in files

\* the positions of the entries whose version, stripped as the code strips it, is vs
SameVersion(l, vs) == { i \in 1..Len(l) : Strip(l[i].version) = vs }

NoDuplicate(l) == \A i, j \in 1..Len(l) : i # j => l[i].version # l[j].version

C6_NoStyleCoexistence ==
    \A sv \in Semvers, st \in Stage :
        ~(Exists(remote, BaseTag(sv, ".", st)) /\ Exists(remote, BaseTag(sv, "-", st)))

\* a lookup of the cleanup run (gh release list, gh release view --json assets) failed
LookupFailed(a, log) ==
    /\ ~a.dry_run
    /\ \E i \in 1..Len(log) : log[i].op \in {"list", "assets"} /\ Fails(a, log[i].op, log[i].tag)

\* C7: a cleanup run in which a lookup fails ends with a non-zero status and
\* issues no deleteRelease and no deleteAsset, whatever was classified before the
\* failure and even with --yes; the remote stays as it was.
C7_LookupFailureAborts ==
    [][CleanupPass /\ LookupFailed(args', calls') =>
        /\ exit' # 0
        /\ Deletes(calls') = {}
        /\ remote' = remote]_vars

\* the asset lookup failed under --yes after a release was already planned for deletion
C7_Witness ==
    /\ pc = "done" /\ args.cmd = "cleanup" /\ args.yes
    /\ LookupFailed(args, calls)
    /\ HasOp(calls, "assets")
    /\ plan.with_index \o plan.not_in_config # <<>>

\* C8: a cleanup pass, run directly or after a publish, issues a deleteRelease or
\* deleteAsset only with --yes or after the answer "y" to its prompt; without
\* --yes and with the answer "n" or no answer it issues none, and a direct
\* cleanup leaves the remote as it was.
C8_ConfirmationGate ==
    [][pc' = "done" /\ runs' # runs /\ args'.cmd \in {"cleanup", "publish"} =>
        /\ Deletes(calls') # {} => (args'.yes \/ args'.answer = <<"y">>)
        /\ (~args'.yes /\ args'.answer \in {<<>>, <<"n">>}) =>
              /\ Deletes(calls') = {}
              /\ args'.cmd = "cleanup" => remote' = remote]_vars

\* a real cleanup had a plan, was declined at the prompt and deleted nothing
C8_Witness ==
    /\ pc = "done" /\ args.cmd = "cleanup" /\ ~args.dry_run /\ ~args.yes
    /\ args.answer = <<"n">>
    /\ exit = 0
    /\ plan.with_index # <<>>
    /\ plan.assets # <<>>
    /\ Deletes(calls) = {}

\* the releases with their asset names, order aside
RemoteSet(rem) == { <<rem[i].tagName, Range(rem[i].assets)>> : i \in 1..Len(rem) }

\* C9: when a real publish with an explicit index has succeeded, running the same
\* command line again issues no createRelease, does not fail, and leaves the
\* manifest and the remote releases and asset names as the first run left them.
C9_RerunIsSafe ==
    [][(/\ pc = "done" /\ pc' = "done" /\ runs' # runs
        /\ args.cmd = "publish" /\ ~args.dry_run /\ exit = 0
        /\ parse_version(args.version).idx # NoIndex) =>
        /\ ~HasOp(calls', "create")
        /\ exit' = 0
        /\ manifest' = manifest
        /\ RemoteSet(remote') = RemoteSet(remote)]_vars

\* the (semver, stage, N) an entry's version parses to
VersionKey(entry) ==
    LET m == CHOOSE x \in VERSION_FULL_RE(Strip(entry.version)) : TRUE
    IN  <<m.semver, m.stage, StrToInt(m.idx)>>

\* C10: in a stage list whose version fields all match the full-version grammar,
\* no two entries parse to the same (semver, stage, N).
C10_IndexUnique ==
    \A a \in 1..Len(manifest), st \in Stage :
        LET l == manifest[a].versions[st]
        IN  (\A i \in 1..Len(l) : VERSION_FULL_RE(Strip(l[i].version)) # {})
                => \A i, j \in 1..Len(l) : i # j => VersionKey(l[i]) # VersionKey(l[j])

\* a step that is one whole run of the publish command
PublishPass == pc = "idle" /\ pc' = "done" /\ args'.cmd = "publish"

\* the canonical name a publish with command line a gives its files of one platform;
\* the app is found and the version is legal
CanonicalName(config, a, ext) ==
    LET app == config[find_app(config, a.app)]
        pv == parse_version(a.version)
        existing == collect_existing_indices(app, pv.semver, pv.stage)
    IN  expected_asset(IF Strip(app.id) # <<>> THEN Strip(app.id) ELSE a.app, pv.stage,
                       IF pv.idx # NoIndex THEN pv.idx
                       ELSE IF existing # {} THEN Max(existing) + 1 ELSE 1,
                       ext)

\* some file is to take a canonical name that another file has: one that was there
\* from the start, or one that an earlier rename of the same run put there
RenameConflict(paths, dest, fs, dry_run) ==
    \/ dest \in fs /\ \E i \in 1..Len(paths) : paths[i] # dest
    \/ ~dry_run /\ Len(paths) >= 2

\* the failures of a publish that need no answer of the remote
PreGatewayFailure(config, fs, a) ==
    LET by_platform == classify_files(resolve_files(a.files, fs))
    IN  \/ find_app(config, a.app) = 0
        \/ ~config[find_app(config, a.app)].github
        \/ ~parse_version(a.version).ok
        \/ by_platform.android = <<>> /\ by_platform.ios = <<>>
        \/ RenameConflict(by_platform.android, CanonicalName(config, a, APK), fs, a.dry_run)
        \/ RenameConflict(by_platform.ios, CanonicalName(config, a, IPA), fs, a.dry_run)

\* C11: a publish run whose app is not found, whose app has no github.owner /
\* github.repo, whose version string is illegal, whose pattern matches no .apk or
\* .ipa, or one of whose renames finds the canonical name taken by another file,
\* ends with a non-zero status before any gateway call: nothing is executed,
\* nothing but renames is announced, and the manifest file and the remote stay.
C11_PreGatewayFailureAborts ==
    [][PublishPass /\ PreGatewayFailure(manifest, files, args') =>
        /\ exit' # 0
        /\ calls' = <<>>
        /\ \A i \in 1..Len(reported') : reported'[i].op = "rename"
        /\ manifest' = manifest
        /\ remote' = remote]_vars

\* a real publish has stopped at a rename: the canonical name of the .apk was
\* already in the directory next to the file to upload
C11_Witness ==
    /\ pc = "done"
    /\ args.cmd = "publish"
    /\ ~args.dry_run
    /\ find_app(manifest, args.app) # 0
    /\ manifest[1].github
    /\ Strip(manifest[1].id) # <<>>
    /\ parse_version(args.version).ok
    /\ files = {APP_APK, Asset(1, APK)}
    /\ exit # 0
    /\ calls = <<>>
    /\ remote # <<>>

\* C12: in a cleanup run every deleteRelease call comes before every deleteAsset
\* call, and no (tag, asset) pair of the delete-asset plan names a release of the
\* delete-release plan: assets are listed for, and deleted from, kept releases only.
C12_ReleasesBeforeAssets ==
    [][CleanupPass =>
        /\ \A i, j \in 1..Len(calls') :
              calls'[i].op = "deleteRelease" /\ calls'[j].op = "deleteAsset" => i < j
        /\ \A k \in 1..Len(plan'.assets) :
              plan'.assets[k][1] \notin Range(to_delete_release(plan'))
        /\ \A i \in 1..Len(calls') :
              calls'[i].op \in {"assets", "deleteAsset"} =>
                  calls'[i].tag \notin Range(to_delete_release(plan'))]_vars

\* a cleanup has deleted a release and an asset of a kept release
C12_Witness ==
    /\ pc = "done"
    /\ args.cmd = "cleanup"
    /\ exit = 0
    /\ HasOp(calls, "deleteRelease")
    /\ HasOp(calls, "deleteAsset")
    /\ to_delete_release(plan) # <<>>
    /\ plan.assets # <<>>

\* C13: after a real publish without asset normalization that ended with status
\* 0, the entry it wrote is the first of its stage list, and the android / ios
\* object of every platform it uploaded a file for carries the tag of the release
\* the files were uploaded to, whether that tag is dot-style or dash-style.
C13_ManifestTagIsReleaseTag ==
    (/\ pc = "done"
     /\ args.cmd = "publish"
     /\ ~args.dry_run
     /\ ~args.normalize_assets
     /\ exit = 0) =>
        LET e == Head(manifest[out.app].versions[out.stage])
        IN  /\ e.version = out.version
            /\ \A i \in 1..2 :
                  Platforms(e)[i].has /\ Platforms(e)[i].asset \in Range(out.assets) =>
                      Platforms(e)[i].tag = out.base_tag

\* C14: when a publish has uploaded its files and runs its cleanup pass, the
\* release it uploaded to is not in the delete-release plan and none of the asset
\* names it uploaded is in the delete-asset plan, whether the app was found by id
\* or by name (an app without id included) and whatever the tag style.
C14_CleanupSparesThePublished ==
    (/\ pc = "done"
     /\ args.cmd = "publish"
     /\ args.cleanup
     /\ out # NoOut) =>
        /\ out.base_tag \notin Range(to_delete_release(plan))
        /\ \A k \in 1..Len(plan.assets) :
              plan.assets[k][1] = out.base_tag => plan.assets[k][2] \notin Range(out.assets)

====
